---- MODULE Spec2Model ----
(***************************************************************************)
(* Preemptive priority scheduling with round robin among equal priorities  *)
(* (scheduling.c).  The master process list, the ready queue (a singly     *)
(* linked list threaded through the nodes' next fields), the running slot  *)
(* and the tick loop of main() are modelled field by field.                *)
(***************************************************************************)
EXTENDS Integers, Sequences, FiniteSets

\* #define Q 10 : time quantum used by the scheduler
Q == 10
\* #define N 96 : length of processing time period
N == 96
\* the null pointer; nodes are named by their position in the master list
NULL == 0

\* ---- bounds of the inputs --------------------------------------------
\* number of lines (processes) of an input file of the general family
MaxProcs == 3
\* number of lines of an input file of the batch family
MaxBatch == 6
\* latest arrival tick of the last line of a batch file
MaxLatecomer == 3
\* longest burst of a file of the round-robin family
MaxRoundRobinBurst == 25
\* preemption family: longest burst of the preempting process and of the
\* preempted one
MaxPreemptorBurst == 12
MaxVictimBurst == 21

VARIABLES
    table,       \* master process data list: priority, burst, arrival per node
    timeLeft,    \* Node.timeLeft
    turnaround,  \* Node.turnaround
    wait,        \* Node.wait
    quantum,     \* Node.quantum
    next,        \* Node.next (ready queue link)
    head,        \* head of ready queue list
    running,     \* process in the running state
    t,           \* loop counter of main()
    pc,          \* position inside one iteration of the for loop
    streakOf,    \* observer: the process stepped in the running slot at the
                 \* last tick while an equal-priority process was queued
    streak       \* observer: for how many consecutive ticks that has been so

vars == <<table, timeLeft, turnaround, wait, quantum, next, head, running, t, pc,
          streakOf, streak>>

Procs == DOMAIN table

\* ---- the ready queue as the list reachable from head -------------------
\* nodes visited by following nxt from n, at most fuel of them (a list that
\* loops would keep the program in the loop for ever: see NoCycle)
RECURSIVE Walk(_, _, _)
Walk(nxt, n, fuel) ==
    IF n = NULL \/ fuel = 0 THEN <<>>
    ELSE <<n>> \o Walk(nxt, nxt[n], fuel - 1)

\* what   nav = head; while(nav != NULL) { ...; nav = nav->next; }   visits
QueueOf(hd, nxt) == Walk(nxt, hd, Len(table) + 1)

ReadyQueue == QueueOf(head, next)

InQueue(p) == LET q == ReadyQueue IN \E i \in 1..Len(q) : q[i] = p

\* ---- enqueue -------------------------------------------------------------
\* the scan of the last branch of enqueue():
\*   while(nav->next != NULL && nav->next->priority <= node->priority &&
\*         node->quantum == 0) nav = nav->next;
RECURSIVE EnqueueScan(_, _, _, _)
EnqueueScan(s, node, nav, fuel) ==
    IF /\ fuel > 0
       /\ s.next[nav] # NULL
       /\ table[s.next[nav]].priority <= table[node].priority
       /\ s.quantum[node] = 0
    THEN EnqueueScan(s, node, s.next[nav], fuel - 1)
    ELSE nav

\* enqueue() that links the node nowhere
EnqueueDrops(s, node) == s

\* enqueue(node) on the scheduler state s = [head, running, next, quantum]
Enqueue(s, node) ==
    IF node = NULL THEN s
    ELSE
      LET s1 == IF s.quantum[node] >= Q
                THEN [s EXCEPT !.quantum[node] = 0]
                ELSE s
      IN
      IF s1.head = NULL THEN
          [s1 EXCEPT !.head = node]
      ELSE IF table[node].priority > table[s1.head].priority THEN
          [s1 EXCEPT !.next[node] = s1.head, !.head = node]
      ELSE IF table[node].priority = table[s1.head].priority THEN
          IF s1.quantum[node] # 0
          THEN [s1 EXCEPT !.next[node] = s1.head, !.head = node]
          ELSE [s1 EXCEPT !.next[node] = s1.next[s1.head],
                          !.next[s1.head] = node]
      ELSE
          LET nav == EnqueueScan(s1, node, s1.head, Len(table) + 1)
          IN [s1 EXCEPT !.next[node] = s1.next[nav],
                        !.next[nav] = node]

\* ---- dequeue -------------------------------------------------------------
\* dequeue() without its   head = head->next
DequeueKeepsHead(s) ==
    [s EXCEPT !.running = s.head]

\* dequeue() that empties the running slot whatever the queue holds
DequeueLeavesSlotEmpty(s) ==
    [s EXCEPT !.running = NULL]

Dequeue(s) ==
    [s EXCEPT !.running = s.head,
              !.head = IF s.head # NULL THEN s.next[s.head] ELSE NULL]

\* ---- quantumCheck ----------------------------------------------------------
\* quantumCheck() without its   else if(running->quantum == Q)   branch
QuantumCheckNoExpiry(s) ==
    IF s.running = NULL THEN s
    ELSE IF timeLeft[s.running] = 0 THEN
        Dequeue([s EXCEPT !.next[s.running] = NULL])
    ELSE s

\* quantumCheck() without the dequeue() that follows enqueue(running)
QuantumCheckNoDequeue(s) ==
    IF s.running = NULL THEN s
    ELSE IF timeLeft[s.running] = 0 THEN
        Dequeue([s EXCEPT !.next[s.running] = NULL])
    ELSE IF s.quantum[s.running] = Q THEN
        Enqueue(s, s.running)
    ELSE s

QuantumCheckOf(s) ==
    IF s.running = NULL THEN s
    ELSE IF timeLeft[s.running] = 0 THEN
        Dequeue([s EXCEPT !.next[s.running] = NULL])
    ELSE IF s.quantum[s.running] = Q THEN
        Dequeue(Enqueue(s, s.running))
    ELSE s

\* ---- the body of   if(nav->arrival == t) { ... }   in main() ---------------
\* the body without its   else if(nav->priority > running->priority)   branch
HandleArrivalNoPreemption(s, nav) ==
    IF s.running = NULL THEN
        [s EXCEPT !.running = nav]
    ELSE
        Enqueue(s, nav)

HandleArrival(s, nav) ==
    IF s.running = NULL THEN
        [s EXCEPT !.running = nav]
    ELSE IF table[nav].priority > table[s.running].priority THEN
        IF s.quantum[s.running] = 0 \/ s.quantum[s.running] = 10 THEN
            IF timeLeft[s.running] <= 0
            THEN [s EXCEPT !.running = nav]
            ELSE [Enqueue(s, s.running) EXCEPT !.running = nav]
        ELSE
            [Enqueue(s, s.running) EXCEPT !.running = nav]
    ELSE
        Enqueue(s, nav)

\* the while loop over the master list, from node nav to its end
RECURSIVE ArrivalScan(_, _)
ArrivalScan(s, nav) ==
    IF nav > Len(table) THEN s
    ELSE IF table[nav].arrival = t
         THEN ArrivalScan(HandleArrival(s, nav), nav + 1)
         ELSE ArrivalScan(s, nav + 1)

\* flag of main(): some process arrives at tick t
ArrivalAt(tick) == \E p \in Procs : table[p].arrival = tick

Sched == [head |-> head, running |-> running, next |-> next, quantum |-> quantum]

Install(s) ==
    /\ head' = s.head
    /\ running' = s.running
    /\ next' = s.next
    /\ quantum' = s.quantum

\* ---- actions ---------------------------------------------------------------
\* a tick at which at least one process arrives: the whole scan of the table
Arrivals ==
    /\ pc = "scan"
    /\ t < N
    /\ ArrivalAt(t)
    /\ Install(ArrivalScan(Sched, 1))
    /\ pc' = "step"
    /\ UNCHANGED <<table, timeLeft, turnaround, wait, t, streakOf, streak>>

\* a tick without arrival: flag == 0, quantumCheck() runs
QuantumCheck ==
    /\ pc = "scan"
    /\ t < N
    /\ ~ArrivalAt(t)
    /\ Install(QuantumCheckOf(Sched))
    /\ pc' = "step"
    /\ UNCHANGED <<table, timeLeft, turnaround, wait, t, streakOf, streak>>

\* the running process is stepped while a process of its priority is queued
PeerWaiting ==
    /\ running # NULL
    /\ \E p \in Procs : /\ p # running
                         /\ InQueue(p)
                         /\ table[p].priority = table[running].priority

\* stepProcesses() that also charges a tick of waiting to the running process
StepProcessesChargingRunner ==
    /\ pc = "step"
    /\ quantum' = [p \in Procs |->
                      IF p = running THEN quantum[p] + 1 ELSE quantum[p]]
    /\ timeLeft' = [p \in Procs |->
                      IF p = running THEN timeLeft[p] - 1 ELSE timeLeft[p]]
    /\ turnaround' = [p \in Procs |->
                      turnaround[p] + (IF p = running THEN 1 ELSE 0)
                                    + (IF InQueue(p) THEN 1 ELSE 0)]
    /\ wait' = [p \in Procs |->
                      IF InQueue(p) \/ p = running THEN wait[p] + 1 ELSE wait[p]]
    /\ t' = t + 1
    /\ pc' = "scan"
    /\ streakOf' = IF PeerWaiting THEN running ELSE NULL
    /\ streak' = IF PeerWaiting
                 THEN (IF streakOf = running THEN streak + 1 ELSE 1)
                 ELSE 0
    /\ UNCHANGED <<table, next, head, running>>

\* stepProcesses() and the t++ of the for loop; streakOf and streak record
\* what the tick did and are read by no action
StepProcesses ==
    /\ pc = "step"
    /\ quantum' = [p \in Procs |->
                      IF p = running THEN quantum[p] + 1 ELSE quantum[p]]
    /\ timeLeft' = [p \in Procs |->
                      IF p = running THEN timeLeft[p] - 1 ELSE timeLeft[p]]
    /\ turnaround' = [p \in Procs |->
                      turnaround[p] + (IF p = running THEN 1 ELSE 0)
                                    + (IF InQueue(p) THEN 1 ELSE 0)]
    /\ wait' = [p \in Procs |-> IF InQueue(p) THEN wait[p] + 1 ELSE wait[p]]
    /\ t' = t + 1
    /\ pc' = "scan"
    /\ streakOf' = IF PeerWaiting THEN running ELSE NULL
    /\ streak' = IF PeerWaiting
                 THEN (IF streakOf = running THEN streak + 1 ELSE 1)
                 ELSE 0
    /\ UNCHANGED <<table, next, head, running>>

\* end FOR: output() and flush()
Output ==
    /\ pc = "scan"
    /\ t = N
    /\ pc' = "done"
    /\ UNCHANGED <<table, timeLeft, turnaround, wait, quantum, next, head,
                   running, t, streakOf, streak>>

Next == Arrivals \/ QuantumCheck \/ StepProcesses \/ Output

\* ---- inputs ------------------------------------------------------------------
\* General family: every file of at most MaxProcs lines whose fields are
\* boundary values: two priorities, a burst of one tick, of exactly one
\* quantum or of one quantum plus a tick, an arrival at tick 0, 1 or Q.  The
\* lines are listed by arrival: main() scans the whole list at every tick, so
\* the file order matters only among the lines that arrive at the same tick.
Priorities == {1, 2}
Bursts == {1, Q, Q + 1}
ArrivalTimes == {0, 1, Q}

Lines == [priority : Priorities, burst : Bursts, arrival : ArrivalTimes]

ListedByArrival(tb) ==
    \A i, j \in DOMAIN tb : i < j => tb[i].arrival <= tb[j].arrival

\* Batch family: up to MaxBatch lines, all but the last submitted at tick 0
\* with a burst of one or two ticks, the last one a process of one tick that
\* arrives at 0..MaxLatecomer.
BatchLines == [priority : Priorities, burst : {1, 2}, arrival : {0}]
LateLines == [priority : Priorities, burst : {1}, arrival : 0..MaxLatecomer]

\* newNode() for every line of the file tb, then head = running = NULL in
\* main() (table is set by readFile)
InitWith(tb) ==
    /\ table = tb
    /\ timeLeft = [p \in DOMAIN tb |-> tb[p].burst]
    /\ turnaround = [p \in DOMAIN tb |-> 0]
    /\ wait = [p \in DOMAIN tb |-> 0]
    /\ quantum = [p \in DOMAIN tb |-> 0]
    /\ next = [p \in DOMAIN tb |-> NULL]
    /\ head = NULL
    /\ running = NULL
    /\ t = 0
    /\ pc = "scan"
    /\ streakOf = NULL
    /\ streak = 0

Init ==
    \E n \in 1..MaxProcs :
        \E tb \in [1..n -> Lines] :
            ListedByArrival(tb) /\ InitWith(tb)

Spec == Init /\ [][Next]_vars

InitBatch ==
    \E n \in 1..MaxBatch :
        \E f \in [1..(n - 1) -> BatchLines], last \in LateLines :
            InitWith([i \in 1..n |-> IF i < n THEN f[i] ELSE last])

SpecBatch == InitBatch /\ [][Next]_vars

\* Round-robin family: two lines of the same priority, both arriving at tick
\* 0, each with a burst longer than a quantum.
InitRoundRobin ==
    \E p \in Priorities, b1, b2 \in (Q + 1)..MaxRoundRobinBurst :
        InitWith(<<[priority |-> p, burst |-> b1, arrival |-> 0],
                   [priority |-> p, burst |-> b2, arrival |-> 0]>>)

SpecRoundRobin == InitRoundRobin /\ [][Next]_vars

\* Preemption family: a first line of priority 1 arriving at tick 0 and a
\* second line of priority 2 arriving at tick a, 0 < a < Q, while the first
\* process is unfinished (its burst is longer than a).
InitPreempt ==
    \E a \in 1..(Q - 1), b \in 1..MaxPreemptorBurst :
        \E v \in (a + 1)..MaxVictimBurst :
            InitWith(<<[priority |-> 1, burst |-> v, arrival |-> 0],
                       [priority |-> 2, burst |-> b, arrival |-> a]>>)

SpecPreempt == InitPreempt /\ [][Next]_vars

\* Single-process family: every file of one line whose process can finish
\* within the N ticks of the simulation (arrival + burst <= N).
InitSingle ==
    \E p \in Priorities, a \in 0..(N - 1) :
        \E b \in 1..(N - a) :
            InitWith(<<[priority |-> p, burst |-> b, arrival |-> a]>>)

SpecSingle == InitSingle /\ [][Next]_vars

\* The list reachable from head never loops back on itself, so the fuel of
\* Walk and EnqueueScan never runs out (the loops of the program terminate).
NoCycle == Len(ReadyQueue) <= Len(table)

\* ---- helpers of the properties ---------------------------------------------
\* position of p in the sequence q, 0 when absent
Pos(q, p) == IF \E i \in 1..Len(q) : q[i] = p
             THEN CHOOSE i \in 1..Len(q) : q[i] = p
             ELSE 0

Member(q, p) == \E i \in 1..Len(q) : q[i] = p

SortedByPriority(q) ==
    \A i, j \in 1..Len(q) :
        i < j => table[q[i]].priority >= table[q[j]].priority

\* the first node of the master list that the scan of tick `tick` admits
FirstArrival(tick) ==
    CHOOSE p \in Procs :
        /\ table[p].arrival = tick
        /\ \A o \in Procs : o < p => table[o].arrival # tick

\* ---- C1 ----------------------------------------------------------------------
\* C1: in every reachable state the ready queue is sorted by non-increasing
\* priority from head to tail.
C1_QueueSorted == SortedByPriority(ReadyQueue)

\* ---- C2 ----------------------------------------------------------------------
\* C2: timeLeft of every process is never negative.
C2_TimeLeftNeverNegative == \A p \in Procs : timeLeft[p] >= 0

\* ---- C3 ----------------------------------------------------------------------
\* C3: a process whose timeLeft has reached 0 does not occupy the running slot
\* when the counters are updated and is not in the ready queue.
C3_TerminationClosure ==
    \A p \in Procs :
        timeLeft[p] <= 0 =>
            /\ ~(pc = "step" /\ running = p)
            /\ ~InQueue(p)

\* ---- C4 ----------------------------------------------------------------------
\* C4: when the running process has timeLeft 0 at the start of a tick at which
\* a strictly higher-priority process arrives, the finished process is not
\* inserted into the ready queue and an arriving process of higher priority
\* is running after the scan, whatever the finished process's quantum.
C4_FinishedIsDiscarded ==
    [][(/\ Arrivals
        /\ running # NULL
        /\ timeLeft[running] = 0
        /\ \E p \in Procs : /\ table[p].arrival = t
                             /\ table[p].priority > table[running].priority)
       => (/\ ~Member(QueueOf(head', next'), running)
           /\ running' # NULL
           /\ table[running'].arrival = t
           /\ table[running'].priority > table[running].priority)]_vars

\* ---- C5 ----------------------------------------------------------------------
\* C5: when quantumCheck() finds the running process with quantum = Q and
\* timeLeft > 0, the process gets quantum 0 and goes behind every queued
\* process of its priority: each such peer is either the process dequeued
\* in its place or still ahead of it in the ready queue.
C5_ExpiredGoesToBackOfClass ==
    [][(/\ QuantumCheck
        /\ running # NULL
        /\ timeLeft[running] > 0
        /\ quantum[running] = Q)
       => (/\ quantum'[running] = 0
           /\ \A p \in Procs :
                  (InQueue(p) /\ table[p].priority = table[running].priority)
                  => \/ running' = p
                     \/ /\ Member(QueueOf(head', next'), running)
                        /\ Pos(QueueOf(head', next'), p)
                               < Pos(QueueOf(head', next'), running))]_vars

\* ---- C6 ----------------------------------------------------------------------
\* the first arrival of this tick preempts a running process that is in the
\* middle of a slice
PreemptedMidSlice ==
    /\ pc = "scan"
    /\ t < N
    /\ ArrivalAt(t)
    /\ running # NULL
    /\ timeLeft[running] > 0
    /\ quantum[running] > 0
    /\ quantum[running] < Q
    /\ table[FirstArrival(t)].priority > table[running].priority

\* C6: a running process preempted by a higher-priority arrival with
\* 0 < quantum < Q is inserted ahead of every queued process of its own
\* priority and behind every queued process of strictly higher priority.
C6_PreemptedGoesToFrontOfClass ==
    PreemptedMidSlice =>
        LET s == HandleArrival(Sched, FirstArrival(t))
            q == QueueOf(s.head, s.next)
        IN /\ s.running = FirstArrival(t)
           /\ Member(q, running)
           /\ \A p \in Procs :
                  InQueue(p) =>
                     /\ table[p].priority = table[running].priority
                           => Pos(q, running) < Pos(q, p)
                     /\ table[p].priority > table[running].priority
                           => Pos(q, p) < Pos(q, running)

\* ---- C7 ----------------------------------------------------------------------
\* C7: the quantum counter of every process stays within 0..Q.
C7_QuantumWithinBounds == \A p \in Procs : quantum[p] >= 0 /\ quantum[p] <= Q

\* ---- C8 ----------------------------------------------------------------------
\* C8: the running slot holds at most one process, and that process is not an
\* element of the ready queue.
C8_SingleOccupancy ==
    /\ running \in Procs \cup {NULL}
    /\ running # NULL => ~InQueue(running)

\* the running process was taken from the queue ahead of a node still queued
C8_Witness ==
    /\ pc = "step"
    /\ running # NULL
    /\ next[running] # NULL
    /\ InQueue(next[running])

\* ---- C9 ----------------------------------------------------------------------
\* C9: the counter update leaves every process alone whose timeLeft reached 0
\* in an earlier tick, and at the end the turnaround of a finished process
\* is burst + wait.
C9_FinishedIsUntouched ==
    [][\A p \in Procs :
          /\ (pc = "step" /\ timeLeft[p] <= 0)
                => /\ timeLeft'[p] = timeLeft[p]
                   /\ turnaround'[p] = turnaround[p]
                   /\ wait'[p] = wait[p]
                   /\ quantum'[p] = quantum[p]
          /\ (pc' = "done" /\ timeLeft'[p] <= 0)
                => turnaround'[p] = table[p].burst + wait'[p]]_vars

\* ---- C10 ---------------------------------------------------------------------
\* C10: no process is stepped in the running slot for more than Q
\* consecutive ticks while a process of its priority waits in the queue.
C10_YieldsAfterQuantum == streak <= Q

\* ---- C11 ---------------------------------------------------------------------
\* The round robin the claim describes for two processes, told tick by tick:
\* who holds the processor before tick k, what each has left and how long
\* the current slice has lasted.  The holder changes when it finishes or
\* when its slice reaches Q ticks and the other process is unfinished.
RoundRobinTick(s) ==
    IF s.cur = NULL THEN s
    ELSE
      LET other == 3 - s.cur
          left == [s.left EXCEPT ![s.cur] = @ - 1]
      IN IF left[s.cur] = 0
         THEN [left |-> left, slice |-> 0,
               cur |-> IF left[other] > 0 THEN other ELSE NULL]
         ELSE IF s.slice + 1 = Q
         THEN [left |-> left, slice |-> 0,
               cur |-> IF left[other] > 0 THEN other ELSE s.cur]
         ELSE [left |-> left, slice |-> s.slice + 1, cur |-> s.cur]

RECURSIVE RoundRobinBefore(_)
RoundRobinBefore(k) ==
    IF k = 0
    THEN [left |-> <<table[1].burst, table[2].burst>>, slice |-> 0, cur |-> 1]
    ELSE RoundRobinTick(RoundRobinBefore(k - 1))

\* C11: with two processes of one priority, both arriving at tick 0 with
\* bursts above Q, the first runs ticks 0..Q-1, the second Q..2Q-1, the
\* first resumes at 2Q, and they alternate in slices of at most Q ticks
\* until both have timeLeft 0: at every tick the stepped process, its
\* slice length and what both have left are those of the round robin.
C11_TwoProcessRoundRobin ==
    /\ pc = "step" =>
          /\ running = RoundRobinBefore(t).cur
          /\ running # NULL => quantum[running] = RoundRobinBefore(t).slice
          /\ t < Q => running = 1
          /\ (t >= Q /\ t < 2 * Q) => running = 2
          /\ t = Q => quantum[1] = 0 /\ InQueue(1)
          /\ t = 2 * Q => running = 1
    /\ \A p \in Procs : timeLeft[p] = RoundRobinBefore(t).left[p]
    /\ pc = "done" => \A p \in Procs : timeLeft[p] = 0

\* the first process resumes at tick 2Q with the second one requeued
C11_Witness ==
    /\ pc = "step"
    /\ t = 2 * Q
    /\ running = 1
    /\ InQueue(2)
    /\ quantum[2] = 0
    /\ timeLeft[2] > 0

\* ---- C12 ---------------------------------------------------------------------
\* C12: with A (lower priority, arrival 0) and B (higher priority, burst b,
\* arrival a, 0 < a < Q, A unfinished at a), A runs ticks 0..a-1, B runs
\* ticks a..a+b-1 without interruption and ends with turnaround b and wait
\* 0, and A resumes at tick a+b having waited exactly b ticks.
C12_SimplePreemption ==
    LET a == table[2].arrival
        b == table[2].burst
    IN /\ pc = "step" =>
             /\ t < a => running = 1
             /\ (t >= a /\ t < a + b) => running = 2 /\ InQueue(1)
             /\ t = a + b => running = 1 /\ wait[1] = b
       /\ t < a + b => timeLeft[2] = b - (IF t > a THEN t - a ELSE 0)
       /\ t >= a + b =>
             /\ timeLeft[2] = 0
             /\ turnaround[2] = b
             /\ wait[2] = 0

\* A is back in the running slot at tick a+b, B has finished
C12_Witness ==
    /\ pc = "step"
    /\ t = table[2].arrival + table[2].burst
    /\ running = 1
    /\ wait[1] = table[2].burst
    /\ turnaround[2] = table[2].burst
    /\ timeLeft[2] = 0

\* ---- C13 ---------------------------------------------------------------------
\* C13: a single process with arrival a, burst b, a + b <= N runs ticks
\* a..a+b-1, is never waiting in the queue (also when b > Q) and finishes
\* with turnaround b and wait 0.
C13_SingleProcess ==
    LET a == table[1].arrival
        b == table[1].burst
    IN /\ pc = "step" =>
             /\ running = IF t >= a /\ t < a + b THEN 1 ELSE NULL
             /\ head = NULL
       /\ wait[1] = 0
       /\ timeLeft[1] = IF t <= a THEN b
                        ELSE IF t < a + b THEN b - (t - a) ELSE 0
       /\ pc = "done" => turnaround[1] = b /\ timeLeft[1] = 0

\* a process with a burst above Q has finished at the end of the simulation
C13_Witness ==
    /\ pc = "done"
    /\ table[1].burst > 2 * Q
    /\ turnaround[1] = table[1].burst
    /\ wait[1] = 0
    /\ timeLeft[1] = 0

\* ---- C14 ---------------------------------------------------------------------
\* the first arrival of this tick does not preempt the running process
ArrivesWithoutPreempting ==
    /\ pc = "scan"
    /\ t < N
    /\ ArrivalAt(t)
    /\ running # NULL
    /\ table[FirstArrival(t)].priority <= table[running].priority

\* the queue q with node p put in front of its first entry of strictly lower
\* priority (at the end when there is none)
BehindItsClass(q, p) ==
    LET lower == {i \in 1..Len(q) : table[q[i]].priority < table[p].priority}
        k == IF lower = {} THEN Len(q) + 1
             ELSE CHOOSE i \in lower : \A j \in lower : i <= j
    IN SubSeq(q, 1, k - 1) \o <<p>> \o SubSeq(q, k, Len(q))

\* C14: an arrival that does not preempt is inserted immediately before the
\* first queued entry of strictly lower priority, and equal-priority
\* processes that arrived on the same tick are queued in input order.
C14_ArrivalJoinsBackOfClass ==
    /\ ArrivesWithoutPreempting =>
          LET s == HandleArrival(Sched, FirstArrival(t))
          IN QueueOf(s.head, s.next) = BehindItsClass(ReadyQueue, FirstArrival(t))
    /\ (pc = "step" /\ running # NULL) =>
          \A p, o \in Procs :
             (/\ p < o
              /\ table[p].arrival = t /\ table[o].arrival = t
              /\ table[p].priority = table[o].priority
              /\ InQueue(p) /\ InQueue(o)
              /\ (table[running].arrival < t \/ running < p))
             => Pos(ReadyQueue, p) < Pos(ReadyQueue, o)

\* ---- C15 ---------------------------------------------------------------------
\* C15: in every reachable state the head of the ready queue, i.e. the process
\* the next dequeue() promotes, has the highest priority of the queue.
C15_HeadHasHighestPriority ==
    head # NULL => \A p \in Procs : InQueue(p) => table[p].priority <= table[head].priority

\* ---- C16 ---------------------------------------------------------------------
\* the two branches of the preemption case of main(), each taken by itself:
\* the one guarded by   running->quantum == 0 || running->quantum == 10
BranchSliceBoundary(s, nav) ==
    IF timeLeft[s.running] <= 0
    THEN [s EXCEPT !.running = nav]
    ELSE [Enqueue(s, s.running) EXCEPT !.running = nav]

\* and its else, which prints the context switch
BranchMidSlice(s, nav) ==
    [Enqueue(s, s.running) EXCEPT !.running = nav]

\* the first arrival of this tick preempts the running process
ArrivesPreempting ==
    /\ pc = "scan"
    /\ t < N
    /\ ArrivalAt(t)
    /\ running # NULL
    /\ table[FirstArrival(t)].priority > table[running].priority

\* C16: on every state in which an arrival preempts, the two branches of the
\* preemption case leave the same running slot and the same ready queue,
\* a running process with no time left included.
C16_BranchesAgree ==
    ArrivesPreempting =>
        LET a == BranchSliceBoundary(Sched, FirstArrival(t))
            b == BranchMidSlice(Sched, FirstArrival(t))
        IN /\ a.running = b.running
           /\ QueueOf(a.head, a.next) = QueueOf(b.head, b.next)

\* ---- C17 ---------------------------------------------------------------------
\* C17: work conservation. Whenever the ready queue is non-empty the running
\* slot is non-empty; the running slot is emptied only by quantumCheck()'s
\* dequeue() from an empty queue; and a tick whose arrivals find the slot
\* empty ends with one of them running.
C17_WorkConserving ==
    [][/\ head # NULL => running # NULL
       /\ head' # NULL => running' # NULL
       /\ (running # NULL /\ running' = NULL) =>
             (pc = "scan" /\ ~ArrivalAt(t) /\ head = NULL)
       /\ (pc = "scan" /\ t < N /\ ArrivalAt(t) /\ running = NULL) =>
             (running' # NULL /\ table[running'].arrival = t)]_vars

\* a process that waited in the queue was promoted while others still wait
C17_Witness ==
    /\ pc = "step"
    /\ head # NULL
    /\ running # NULL
    /\ wait[running] > 0
    /\ \E p \in Procs : timeLeft[p] = 0 /\ p # running /\ ~InQueue(p)

\* ---- C18 ---------------------------------------------------------------------
\* process p has been admitted by the scan of its arrival tick
Admitted(p) ==
    \/ table[p].arrival < t
    \/ table[p].arrival = t /\ pc # "scan"

\* C18: no process is lost. Every admitted process with time left is the
\* running process or is in the ready queue; the ready queue holds no process
\* twice and holds no process that has not arrived yet.
C18_NoProcessLost ==
    LET q == ReadyQueue
    IN /\ \A p \in Procs :
             (Admitted(p) /\ timeLeft[p] > 0) => (p = running \/ Member(q, p))
       /\ \A i, j \in 1..Len(q) : q[i] = q[j] => i = j
       /\ \A i \in 1..Len(q) : table[q[i]].arrival <= t

\* a process that has run part of its burst waits in the queue with another
C18_Witness ==
    /\ pc = "step"
    /\ Len(ReadyQueue) >= 2
    /\ \E p \in Procs : /\ InQueue(p)
                         /\ timeLeft[p] > 0
                         /\ timeLeft[p] < table[p].burst

\* ---- C19 ---------------------------------------------------------------------
RECURSIVE SumOfBursts(_)
SumOfBursts(n) == IF n = 0 THEN 0 ELSE table[n].burst + SumOfBursts(n - 1)

LatestArrival == CHOOSE a \in {table[p].arrival : p \in Procs} :
                     \A p \in Procs : table[p].arrival <= a

\* C19: when the latest arrival plus the sum of all bursts is at most N, the
\* simulation ends with every process at remaining 0 and the ready queue
\* empty.
C19_AllWorkCompletes ==
    (pc = "done" /\ LatestArrival + SumOfBursts(Len(table)) <= N) =>
        /\ \A p \in Procs : timeLeft[p] = 0
        /\ head = NULL

\* ---- C20 ---------------------------------------------------------------------
\* 1 when the condition holds, else 0
Tick(cond) == IF cond THEN 1 ELSE 0

\* C20: for every process turnaround = wait + (burst - remaining); the step of
\* a tick adds 1 to the turnaround of the running process and of each queued
\* process, 1 to the wait of each queued process only, and takes 1 from the
\* remaining time of the running process only; nothing else changes them.
C20_Accounting ==
    [][\A p \in Procs :
         /\ turnaround[p] = wait[p] + (table[p].burst - timeLeft[p])
         /\ turnaround'[p] = wait'[p] + (table[p].burst - timeLeft'[p])
         /\ turnaround'[p] - turnaround[p] =
               Tick(pc = "step" /\ (p = running \/ InQueue(p)))
         /\ wait'[p] - wait[p] = Tick(pc = "step" /\ InQueue(p))
         /\ timeLeft[p] - timeLeft'[p] = Tick(pc = "step" /\ p = running)]_vars

\* a process that has both waited and run, and one that is still waiting
C20_Witness ==
    /\ pc = "scan"
    /\ \E p, o \in Procs :
          /\ wait[p] > 0 /\ timeLeft[p] < table[p].burst
          /\ turnaround[p] = wait[p] + (table[p].burst - timeLeft[p])
          /\ InQueue(o) /\ wait[o] > 0 /\ turnaround[o] = wait[o]
====
